---- MODULE Spec2Model ----
(***************************************************************************)
(* TACo smart wallet: one transfer round.                                  *)
(*                                                                         *)
(* A round is TacoSmartWalletService.send_eth (smart_account.py) and the   *)
(* stages it chains: balance check, counter read, operation builder        *)
(* (user_operations.py), gas re-pricing (smart_account.py + bundler.py),   *)
(* threshold signing through the Porter gateway (porter.py) and relay      *)
(* submission (bundler.py).                                                *)
(*                                                                         *)
(* send_eth calls the builder without its required parameter web3, so a    *)
(* send_eth round ends at the builder with TypeError.  The stages behind   *)
(* the builder are the statements of send_eth after that call; they run    *)
(* in rounds whose caller (caller = "api": the package exports the builder,*)
(* BundlerClient and PorterSignatureService) passes the builder its full   *)
(* parameter list and then runs the same statements.                       *)
(*                                                                         *)
(* Amounts and balances are counted in wei; amount_eth is carried as the   *)
(* wei number it converts to.                                              *)
(*                                                                         *)
(* Each action is one network exchange together with the code that runs    *)
(* from its reply up to the next network request.  Replies are inputs,     *)
(* drawn with \E from small sets.                                          *)
(*                                                                         *)
(* Three specifications:                                                  *)
(*   Spec          one round, from the balance check to the relay          *)
(*   Spec_Bundler  gas re-pricing and the relay wire format applied to any *)
(*                 UserOperation, with estimates of any size               *)
(*   Spec_Threads  the tip threads of app.py running concurrently: the     *)
(*                 authorization context and the session secrets           *)
(*                                                                         *)
(* Representation of Python values:                                        *)
(*   None            [none |-> TRUE]                                       *)
(*   bytes           a sequence of numbers 0..255                          *)
(*   "0x..." string  [neg |-> BOOLEAN, digits |-> sequence of 0..15]       *)
(*   address string  [addr |-> STRING]                                     *)
(*   dict            a record; ordered dict of the gateway: a sequence of  *)
(*                   [provider, data] pairs with distinct providers        *)
(***************************************************************************)
EXTENDS Integers, Sequences, FiniteSets, TLC

VARIABLES
    caller,               \* who drives the round: "send_eth" or "api"
    pc,                   \* the stage the round is at
    args,                 \* the arguments of the round
    nonce,                \* value read by _get_nonce (None before)
    user_operation,       \* the UserOperation object (None before the builder returns)
    discord_context,      \* threading.current_thread().discord_context
    signing_request,      \* the UserOperationSignatureRequest (None before)
    shared_secrets,       \* provider -> shared secret of this round (None before)
    request_data,         \* the body built for POST /sign (None before)
    porter_reply,         \* the gateway's reply to POST /sign (None before)
    signature_responses,  \* decrypted, sorted responses (None before)
    signed_user_operation,\* the SignedUserOperation (None before)
    estimate_request,     \* the dict sent with eth_estimateUserOperationGas
    relay_request,        \* the dict sent with eth_sendUserOperation
    result,               \* what send_eth returns (None before)
    error,                \* the exception that left the round (None if none)
    netlog,               \* the network calls issued so far, in order
    balance_wei,          \* _validate_balance: the balance read (None before)
    gas_prices,           \* _optimize_gas_settings: the fee-price result (None before)
    gas_estimates,        \* _optimize_gas_settings: the gas-estimate result (None before)
    threads,              \* app.py: the locals of each tip thread
    thread_attrs,         \* the attribute discord_context of each thread object
    entropy,              \* how many session secrets the OS random source has given out
    resolutions,          \* config.py: the calls of the address resolver and what they returned
    chain                 \* the contracts: the account's counter and the cohort's keys

vars == <<caller, pc, args, nonce, user_operation, discord_context,
          signing_request, shared_secrets, request_data, porter_reply,
          signature_responses,
          signed_user_operation, estimate_request, relay_request, result,
          error, netlog, balance_wei, gas_prices, gas_estimates,
          threads, thread_attrs, entropy, resolutions, chain>>

\* the state of the tip threads of app.py
app_vars == <<threads, thread_attrs, entropy, resolutions, chain>>

None == [none |-> TRUE]
Some(x) == [some |-> x]

(***************************************************************************)
(* Bounds of the model.                                                    *)
(***************************************************************************)
\* entries in the gateway's response map
MaxResponses == 3

\* bytes of one partial signature as the signers return it
SigLen == 65

\* the providers of the cohort read from the SigningCoordinator, and the
\* providers that may appear in the gateway's response map (one is unexpected)
CohortProviders == {1, 2, 3}
ResponseProviders == CohortProviders \cup {99}
SessionSecrets == {"sk1"}
Amounts == {1}
\* digits per user identifier text, and the digits the texts are made of
MaxIdLen == 3
IdDigits == {0, 2, 5, 8}
Balances == {0, 1}
Nonces == {0, 1}
UserIds == {None, [id |-> 42]}
WellFormedAddresses == {"0xaaaaaaaaaaaaaaaaaaaaaaaaaaaaaaaaaaaaaaaa"}
Recipients == WellFormedAddresses \cup {"0x12"}

(***************************************************************************)
(* Program constants.                                                      *)
(***************************************************************************)
ENTRYPOINT_V07 == [addr |-> "0x0000000071727De22E5E9d8BAf0edAc6f37da032"]
SMART_ACCOUNT_FACTORY == [addr |-> "0x9406Cc6185a346906296840746125a0E44976454"]
DEFAULT_GAS_LIMITS ==
    [call |-> 300000, verification |-> 1000000,
     pre_verification |-> 60000, fee |-> 1100000]
\* SmartAccountConfig() without a user id
smart_account_address == [addr |-> "0xBF151420A84A6Bb7b1213d8269a5F1fe43FC3276"]
cohort_id == 2
chain_id == 84532
\* PorterSignatureService(config) : threshold defaults to 2
threshold == 2
\* app.py: the interaction types and the type of the deferred response
DISCORD_PING_TYPE == 1
DISCORD_COMMAND_TYPE == 2
DISCORD_DEFERRED_RESPONSE_TYPE == 5
\* "0" * 130 : the number of hex digits of the dummy signature
DummySignatureHexDigits == 130

(***************************************************************************)
(* Python conversions.                                                     *)
(***************************************************************************)
RECURSIVE HexDigits(_)
HexDigits(n) ==
    IF n < 16 THEN <<n>> ELSE Append(HexDigits(n \div 16), n % 16)

\* hex(n): "0x.." for n >= 0, "-0x.." for n < 0, no leading zeros
hex(n) == [neg |-> n < 0, digits |-> HexDigits(IF n < 0 THEN 0 - n ELSE n)]

RECURSIVE DigitsValue(_)
DigitsValue(d) ==
    IF d = <<>> THEN 0
    ELSE 16 * DigitsValue(SubSeq(d, 1, Len(d) - 1)) + d[Len(d)]

\* int(s, 16)
int16(s) == IF s.neg THEN 0 - DigitsValue(s.digits) ELSE DigitsValue(s.digits)

\* bytes.hex(): two digits per byte, high digit first
BytesHex(b) ==
    [i \in 1..(2 * Len(b)) |->
        IF i % 2 = 1 THEN b[(i + 1) \div 2] \div 16 ELSE b[i \div 2] % 16]

\* "0x" + b.hex()
HexOfBytes(b) == [neg |-> FALSE, digits |-> BytesHex(b)]

\* the bytes a run of hex digits denotes, two digits per byte
HexBytes(d) ==
    [i \in 1..(Len(d) \div 2) |-> 16 * d[2 * i - 1] + d[2 * i]]

Zeros(n) == [i \in 1..n |-> 0]

Truthy(x) == x # None /\ x # [str |-> ""]

RECURSIVE DecimalValue(_)
DecimalValue(d) ==
    IF d = <<>> THEN 0
    ELSE 10 * DecimalValue(SubSeq(d, 1, Len(d) - 1)) + d[Len(d)]

\* int(s) of a text of decimal digits: leading zeros are accepted, the empty
\* text is not
int(s) == IF s = <<>> THEN [raise |-> "ValueError"] ELSE [value |-> DecimalValue(s)]

\* n.to_bytes(1, byteorder='big') with the high bytes dropped
to_bytes_low(n) == <<n % 256>>

\* n.to_bytes(32, byteorder='big') for 0 <= n < 2^24: 29 zero bytes and the
\* three low bytes
to_bytes(n) ==
    [i \in 1..32 |->
        IF i = 32 THEN n % 256
        ELSE IF i = 31 THEN (n \div 256) % 256
        ELSE IF i = 30 THEN (n \div 65536) % 256
        ELSE 0]

\* Web3.keccak: the digest stands for its preimage (the hash taken as injective)
keccak(b) == [keccak256_of |-> b]

(***************************************************************************)
(* config.py                                                               *)
(***************************************************************************)
\* compute_smart_account_address(user_id) with the default factory address
compute_smart_account_address(user_id) ==
    LET user_id_int == int(user_id)
    IN  IF "raise" \in DOMAIN user_id_int THEN user_id_int
        ELSE LET salt == to_bytes(user_id_int.value)
                 salt_hash == keccak(salt)
                 combined == <<SMART_ACCOUNT_FACTORY, salt, salt_hash>>
                 address_hash == keccak(combined)
             IN  [checksum_address |-> [last_20_bytes_of |-> address_hash]]

(***************************************************************************)
(* user_operations.py                                                      *)
(***************************************************************************)
\* Web3.keccak(text=...)[:4]: four bytes the model does not compute; the two
\* selectors are distinct stand-ins
EXECUTE_SELECTOR == <<225, 1, 2, 3>>
CREATE_ACCOUNT_SELECTOR == <<95, 4, 5, 6>>

\* Web3.to_checksum_address accepts exactly the well-formed addresses
IsAddress(a) == a \in WellFormedAddresses

\* eth_abi.encode, each 32-byte big-endian word shortened to its two low
\* bytes; an address is the word of its last byte
AbiAddress(a) == IF a = "0xaaaaaaaaaaaaaaaaaaaaaaaaaaaaaaaaaaaaaaaa" THEN 170 ELSE 0
RECURSIVE encode(_)
encode(words) ==
    IF words = <<>> THEN <<>>
    ELSE <<Head(words) \div 256, Head(words) % 256>> \o encode(Tail(words))

\* the deployed code not looked at
needs_deployment_ignoring_code(code, user_id) == user_id # None

\* `not account_exists and user_id`, with account_exists = len(code) > 0
needs_deployment(code, user_id) == ~(Len(code) > 0) /\ user_id # None

\* The builder, given the reply of web3.eth.get_code as `code`.
create_eth_transfer_user_operation(smart_account, to_address, amount_wei, nonce_, code, user_id) ==
    LET deploy == needs_deployment(code, user_id)
        factory == IF deploy THEN SMART_ACCOUNT_FACTORY ELSE None
        factory_data ==
            IF deploy
            THEN CREATE_ACCOUNT_SELECTOR \o encode(<<AbiAddress("0x0000000000000000000000000000000000000000"), user_id.id>>)
            ELSE <<>>
    IN  IF ~IsAddress(to_address)
        THEN [raise |-> "ValueError: invalid address"]
        ELSE [sender |-> smart_account,
              nonce |-> nonce_,
              factory |-> factory,
              factory_data |-> factory_data,
              call_data |-> EXECUTE_SELECTOR \o encode(<<AbiAddress(to_address), amount_wei, 0>>),
              call_gas_limit |-> DEFAULT_GAS_LIMITS.call,
              verification_gas_limit |-> DEFAULT_GAS_LIMITS.verification,
              pre_verification_gas |-> DEFAULT_GAS_LIMITS.pre_verification,
              max_fee_per_gas |-> DEFAULT_GAS_LIMITS.fee,
              max_priority_fee_per_gas |-> DEFAULT_GAS_LIMITS.fee,
              paymaster |-> None,
              paymaster_verification_gas_limit |-> 0,
              paymaster_post_op_gas_limit |-> 0,
              paymaster_data |-> <<>>,
              signature |-> <<>>]

(***************************************************************************)
(* bundler.py                                                              *)
(***************************************************************************)
\* a field mix-up in the gas limits
pimlico_gas_fields_swapped(op) ==
    [callGasLimit |-> hex(op.verification_gas_limit),
     verificationGasLimit |-> hex(op.call_gas_limit),
     preVerificationGas |-> hex(op.pre_verification_gas),
     maxFeePerGas |-> hex(op.max_fee_per_gas),
     maxPriorityFeePerGas |-> hex(op.max_priority_fee_per_gas)]

\* the gas and fee entries of the pimlico dict
pimlico_gas_fields(op) ==
    [callGasLimit |-> hex(op.call_gas_limit),
     verificationGasLimit |-> hex(op.verification_gas_limit),
     preVerificationGas |-> hex(op.pre_verification_gas),
     maxFeePerGas |-> hex(op.max_fee_per_gas),
     maxPriorityFeePerGas |-> hex(op.max_priority_fee_per_gas)]

\* signature: None or Some(bytes)
convert_user_operation_to_pimlico_format(user_op, signature) ==
    LET wrapped == "user_operation" \in DOMAIN user_op
        op == IF wrapped THEN user_op.user_operation ELSE user_op
        sig == IF wrapped THEN Some(user_op.signature) ELSE signature
        gas == pimlico_gas_fields(op)
    IN  [sender |-> op.sender,
         nonce |-> hex(op.nonce),
         callData |-> HexOfBytes(op.call_data),
         callGasLimit |-> gas.callGasLimit,
         verificationGasLimit |-> gas.verificationGasLimit,
         preVerificationGas |-> gas.preVerificationGas,
         maxFeePerGas |-> gas.maxFeePerGas,
         maxPriorityFeePerGas |-> gas.maxPriorityFeePerGas,
         signature |->
            IF sig # None /\ sig.some # <<>>
            THEN HexOfBytes(sig.some) ELSE HexOfBytes(<<>>),
         factory |-> op.factory,
         factoryData |->
            IF op.factory # None /\ op.factory_data # <<>>
            THEN HexOfBytes(op.factory_data) ELSE None,
         paymaster |-> op.paymaster,
         paymasterVerificationGasLimit |->
            IF op.paymaster # None THEN hex(op.paymaster_verification_gas_limit) ELSE None,
         paymasterPostOpGasLimit |->
            IF op.paymaster # None THEN hex(op.paymaster_post_op_gas_limit) ELSE None,
         paymasterData |->
            IF op.paymaster # None
            THEN (IF op.paymaster_data # <<>> THEN HexOfBytes(op.paymaster_data) ELSE HexOfBytes(<<>>))
            ELSE None]

\* the dict estimate_user_operation_gas sends: the signature replaced by the dummy
estimate_user_operation_gas_request(user_operation_) ==
    [convert_user_operation_to_pimlico_format(user_operation_, None)
        EXCEPT !.signature = [neg |-> FALSE, digits |-> Zeros(DummySignatureHexDigits)]]

\* The replies of the relay to one JSON-RPC request whose success value is in `results`.
BundlerReplies(results) ==
    {[kind |-> "exception"], [kind |-> "http", status |-> 500],
     [kind |-> "http", status |-> 200, body |-> [error |-> [message |-> "rejected"]]],
     [kind |-> "http", status |-> 200, body |-> [id |-> 1]]}
    \cup {[kind |-> "http", status |-> 200, body |-> [result |-> r]] : r \in results}

\* what _make_bundler_request returns for a reply
make_bundler_request(reply) ==
    IF reply.kind = "exception" THEN None
    ELSE IF reply.status = 200
         THEN IF "result" \in DOMAIN reply.body THEN reply.body.result ELSE None
         ELSE None

\* whether the exchange itself succeeded (a result came back)
ReplyOk(reply) ==
    reply.kind = "http" /\ reply.status = 200 /\ "result" \in DOMAIN reply.body

\* the request's outcome not looked at
send_user_operation_result_unchecked(r) ==
    [success |-> TRUE, user_operation_hash |-> r, status |-> "submitted"]

\* send_user_operation from the reply on: r is what _make_bundler_request returned
send_user_operation_result(r) ==
    IF Truthy(r)
    THEN [success |-> TRUE, user_operation_hash |-> r, status |-> "submitted"]
    ELSE [success |-> FALSE, error |-> "Failed to send UserOperation", status |-> "failed"]

(***************************************************************************)
(* smart_account.py: gas re-pricing and the result of the round            *)
(***************************************************************************)
\* _optimize_gas_settings, first half: gas_prices_ is what the relay request returned
apply_gas_prices(op, gas_prices_) ==
    IF gas_prices_ # None /\ "fast" \in DOMAIN gas_prices_
    THEN LET fast_prices == gas_prices_.fast
             op1 == IF "maxFeePerGas" \in DOMAIN fast_prices
                    THEN [op EXCEPT !.max_fee_per_gas = int16(fast_prices.maxFeePerGas)]
                    ELSE op
         IN  IF "maxPriorityFeePerGas" \in DOMAIN fast_prices
             THEN [op1 EXCEPT !.max_priority_fee_per_gas = int16(fast_prices.maxPriorityFeePerGas)]
             ELSE op1
    ELSE op

\* the estimate applied as it came
without_buffer(base_gas) == base_gas

\* int(base_gas * 1.5) for a quantity base_gas >= 0: the product is exact in a
\* double for every value below 2^52, int() drops the half
with_buffer(base_gas) == (3 * base_gas) \div 2

\* a field the relay left out read with a default of "0x0"
apply_gas_estimates_defaulting(op, gas_estimates_) ==
    IF gas_estimates_ # None
    THEN LET get(k) == IF k \in DOMAIN gas_estimates_ THEN int16(gas_estimates_[k]) ELSE 0
         IN  [op EXCEPT !.call_gas_limit = get("callGasLimit"),
                        !.verification_gas_limit = with_buffer(get("verificationGasLimit")),
                        !.pre_verification_gas = get("preVerificationGas")]
    ELSE op

\* _optimize_gas_settings, second half
apply_gas_estimates(op, gas_estimates_) ==
    IF gas_estimates_ # None
    THEN LET op1 == IF "callGasLimit" \in DOMAIN gas_estimates_
                    THEN [op EXCEPT !.call_gas_limit = int16(gas_estimates_.callGasLimit)]
                    ELSE op
             op2 == IF "verificationGasLimit" \in DOMAIN gas_estimates_
                    THEN [op1 EXCEPT !.verification_gas_limit =
                                with_buffer(int16(gas_estimates_.verificationGasLimit))]
                    ELSE op1
         IN  IF "preVerificationGas" \in DOMAIN gas_estimates_
             THEN [op2 EXCEPT !.pre_verification_gas = int16(gas_estimates_.preVerificationGas)]
             ELSE op2
    ELSE op

format_transfer_result(bundler_result, recipient, amount_eth) ==
    IF bundler_result.success
    THEN [smart_account |-> smart_account_address, recipient |-> recipient,
          amount_eth |-> amount_eth,
          user_operation_hash |-> bundler_result.user_operation_hash,
          status |-> "submitted", success |-> TRUE]
    ELSE [smart_account |-> smart_account_address, recipient |-> recipient,
          amount_eth |-> amount_eth,
          error |-> bundler_result.error,
          status |-> "failed", success |-> FALSE]

(***************************************************************************)
(* porter.py                                                               *)
(***************************************************************************)
\* the session static key the coordinator publishes for a provider
signing_request_key(p) == [static_key_of |-> p]

\* key agreement: the requester's ephemeral secret with a signer's public key
derive_shared_secret(requester_sk_, signer_public_key) ==
    [requester |-> requester_sk_, signer |-> signer_public_key]

\* the signer address a provider answers with, as a number; the order of the
\* signers differs from the order of the providers and from the order of
\* their hex strings
SignerId(p) == IF p = 1 THEN 16 ELSE IF p = 2 THEN 9 ELSE IF p = 3 THEN 10 ELSE 16 + p

\* the SignatureResponse provider p produces
SignatureResponseOf(p) ==
    [signer |-> hex(SignerId(p)),
     signature |-> [i \in 1..SigLen |-> SignerId(p)],
     signature_type |-> "userop"]

\* the base64 text in the response map: a response encrypted under a shared
\* secret, or bytes that do not decode
Garbage == [garbage |-> TRUE]
EncryptedResponse(p, secret) == [key |-> secret, plain |-> SignatureResponseOf(p)]

\* EncryptedThresholdSignatureResponse.from_bytes(b64decode(..)).decrypt(secret) succeeds
Decryptable(data, secret) == "plain" \in DOMAIN data /\ data.key = secret

RECURSIVE decrypt_responses_strict(_, _, _)
\* a response of a provider without a shared secret treated as an error
decrypt_responses_strict(entries, secrets, acc) ==
    IF entries = <<>> THEN [list |-> acc]
    ELSE LET e == Head(entries)
         IN  IF e.provider \notin DOMAIN secrets
             THEN [raise |-> "no shared secret"]
             ELSE IF Decryptable(e.data, secrets[e.provider])
                  THEN decrypt_responses_strict(Tail(entries), secrets, Append(acc, e.data.plain))
                  ELSE [raise |-> "decryption failed"]

RECURSIVE decrypt_responses(_, _, _)
\* the loop over encrypted_signature_responses.items(); an exception leaves it
decrypt_responses(entries, secrets, acc) ==
    IF entries = <<>> THEN [list |-> acc]
    ELSE LET e == Head(entries)
         IN  IF e.provider \notin DOMAIN secrets
             THEN decrypt_responses(Tail(entries), secrets, acc)
             ELSE IF Decryptable(e.data, secrets[e.provider])
                  THEN decrypt_responses(Tail(entries), secrets, Append(acc, e.data.plain))
                  ELSE [raise |-> "decryption failed"]

RECURSIVE insert_by_signer(_, _)
\* r goes after every element whose key is not larger (sorted() is stable)
insert_by_signer(sorted_, r) ==
    IF sorted_ = <<>> THEN <<r>>
    ELSE IF int16(Head(sorted_).signer) <= int16(r.signer)
         THEN <<Head(sorted_)>> \o insert_by_signer(Tail(sorted_), r)
         ELSE <<r>> \o sorted_

RECURSIVE sort_fold(_, _)
sort_fold(rs, acc) ==
    IF rs = <<>> THEN acc ELSE sort_fold(Tail(rs), insert_by_signer(acc, Head(rs)))

\* the responses left in arrival order
in_arrival_order(rs) == rs

\* sorted(signature_responses, key=lambda r: int(r.signer, 16))
sorted_by_signer(rs) == sort_fold(rs, <<>>)

\* the errors list of the reply not looked at
process_signing_results_ignoring_errors(signing_results, secrets) ==
    IF signing_results.encrypted_signature_responses = <<>>
    THEN [raise |-> "No encrypted signature responses in TACo response"]
    ELSE LET d == decrypt_responses(signing_results.encrypted_signature_responses, secrets, <<>>)
         IN  IF "raise" \in DOMAIN d THEN d
             ELSE IF sorted_by_signer(d.list) = <<>>
             THEN [raise |-> "No valid signature responses from TACo network"]
             ELSE [list |-> sorted_by_signer(d.list)]

\* _request_signatures from response.json() on: [list |-> ..] or [raise |-> ..]
process_signing_results(signing_results, secrets) ==
    IF signing_results.errors # <<>>
    THEN [raise |-> "TACo signing failed"]
    ELSE IF signing_results.encrypted_signature_responses = <<>>
    THEN [raise |-> "No encrypted signature responses in TACo response"]
    ELSE LET d == decrypt_responses(signing_results.encrypted_signature_responses, secrets, <<>>)
         IN  IF "raise" \in DOMAIN d THEN d
             ELSE IF sorted_by_signer(d.list) = <<>>
             THEN [raise |-> "No valid signature responses from TACo network"]
             ELSE [list |-> sorted_by_signer(d.list)]

RECURSIVE join(_)
\* b"".join(list of bytes)
join(bs) == IF bs = <<>> THEN <<>> ELSE Head(bs) \o join(Tail(bs))

create_signed_user_operation(user_operation_, signature_responses_) ==
    [user_operation |-> user_operation_,
     signature |-> join([i \in 1..Len(signature_responses_) |-> signature_responses_[i].signature])]

(***************************************************************************)
(* Replies of the network, the inputs of the actions                       *)
(***************************************************************************)
BalanceReplies == {[ok |-> FALSE]} \cup {[ok |-> TRUE, balance |-> b] : b \in Balances}
NonceReplies == {[ok |-> FALSE]} \cup {[ok |-> TRUE, nonce |-> n] : n \in Nonces}
CodeReplies == {[ok |-> FALSE]} \cup {[ok |-> TRUE, code |-> c] : c \in {<<>>, <<96, 128>>}}
CohortReplies == {[ok |-> FALSE], [ok |-> TRUE, signers |-> CohortProviders]}

TierPrices == [maxFeePerGas |-> hex(2000000), maxPriorityFeePerGas |-> hex(1500000)]
FastTiers ==
    {TierPrices, [maxFeePerGas |-> hex(2000000)], [maxPriorityFeePerGas |-> hex(1500000)]}
GasPriceResults ==
    {[slow |-> TierPrices, standard |-> TierPrices]}
    \cup {[slow |-> TierPrices, standard |-> TierPrices, fast |-> t] : t \in FastTiers}

FullEstimate ==
    [callGasLimit |-> hex(80000), verificationGasLimit |-> hex(100000),
     preVerificationGas |-> hex(50000)]
GasEstimateResults ==
    {[k \in S |-> FullEstimate[k]] : S \in (SUBSET DOMAIN FullEstimate) \ {{}}}

SendResults == {[str |-> "0xuserophash"], [str |-> ""]}

\* the response maps: at most MaxResponses entries, one per provider, in
\* arrival order; each is a response encrypted under the provider's shared
\* secret with the requester, or garbage
ResponseShapes ==
    UNION {{m \in [1..n -> [provider : ResponseProviders, valid : BOOLEAN]] :
                \A i, j \in 1..n : i # j => m[i].provider # m[j].provider}
           : n \in 0..MaxResponses}

ResponseMap(m, requester_sk_) ==
    [i \in 1..Len(m) |->
        [provider |-> m[i].provider,
         data |-> IF m[i].valid
                  THEN EncryptedResponse(m[i].provider,
                          derive_shared_secret(requester_sk_, signing_request_key(m[i].provider)))
                  ELSE Garbage]]

GatewayReplies(requester_sk_) ==
    {[kind |-> "exception"], [kind |-> "http", status |-> 500]}
    \cup {[kind |-> "http", status |-> 200,
           signing_results |-> [errors |-> e,
                                encrypted_signature_responses |-> ResponseMap(m, requester_sk_)]]
          : e \in {<<>>, <<"signer failed">>}, m \in ResponseShapes}

DiscordContext ==
    [message_hex |-> "1700000000{body}", signature |-> "ed25519sig", body |-> "{body}"]

\* the signers of the cohort with the session keys the SigningCoordinator
\* holds for them after k changes of keys
cohort_keys(k) ==
    [p \in CohortProviders |->
        IF k = 0 THEN signing_request_key(p) ELSE [static_key_of |-> p, changed |-> k]]

\* the chain as the application starts: the account's counter at the
\* EntryPoint and the cohorts the SigningCoordinator has held, the last one
\* current
chain_at_start == [nonce |-> 0, cohorts |-> <<cohort_keys(0)>>]

(***************************************************************************)
(* The round                                                               *)
(***************************************************************************)
Init ==
    /\ caller \in {"send_eth", "api"}
    /\ args \in [user_id : UserIds, recipient : Recipients, amount_wei : Amounts]
    /\ pc = IF caller = "send_eth" THEN "validate_balance" ELSE "create_op"
    /\ nonce \in IF caller = "send_eth" THEN {None} ELSE {[value |-> n] : n \in Nonces}
    /\ caller = "send_eth" => args.user_id # None
    /\ discord_context \in {None, DiscordContext}
    /\ user_operation = None
    /\ signing_request = None
    /\ shared_secrets = None
    /\ request_data = None
    /\ porter_reply = None
    /\ signature_responses = None
    /\ signed_user_operation = None
    /\ estimate_request = None
    /\ relay_request = None
    /\ result = None
    /\ error = None
    /\ netlog = <<>>
    /\ balance_wei = None
    /\ gas_prices = None
    /\ gas_estimates = None
    /\ threads = <<>>
    /\ thread_attrs = <<>>
    /\ entropy = 0
    /\ resolutions = <<>>
    /\ chain = chain_at_start

Raise(e) == pc' = "done" /\ error' = [exception |-> e]

\* a request sent a second time after the first
CallRepeated(name, ok) ==
    netlog' = netlog \o <<[call |-> name, ok |-> ok], [call |-> name, ok |-> ok]>>

\* one network request and whether it came back with a usable reply
Call(name, ok) == netlog' = Append(netlog, [call |-> name, ok |-> ok])

\* the comparison left out
insufficient_never(balance_wei_, amount_wei) == FALSE

\* _validate_balance: balance_wei < amount_wei
insufficient(balance_wei_, amount_wei) == balance_wei_ < amount_wei

\* send_eth: _validate_balance
ValidateBalance ==
    /\ pc = "validate_balance"
    /\ \E reply \in BalanceReplies :
        /\ Call("eth_getBalance", reply.ok)
        /\ IF ~reply.ok THEN Raise("balance read failed") /\ balance_wei' = balance_wei
           ELSE /\ balance_wei' = [value |-> reply.balance]
                /\ IF insufficient(reply.balance, args.amount_wei)
                   THEN Raise("Insufficient balance")
                   ELSE pc' = "get_nonce" /\ error' = error
    /\ UNCHANGED app_vars
    /\ UNCHANGED <<gas_prices, gas_estimates,
                   caller, args, nonce, user_operation, discord_context,
                   signing_request, shared_secrets, request_data, porter_reply,
                   signature_responses, signed_user_operation, estimate_request,
                   relay_request, result>>

\* send_eth: nonce=self._get_nonce(), evaluated before the builder is called
GetNonce ==
    /\ pc = "get_nonce"
    /\ \E reply \in NonceReplies :
        /\ Call("getNonce", reply.ok)
        /\ IF ~reply.ok THEN Raise("nonce read failed") /\ nonce' = nonce
           ELSE pc' = "create_op" /\ nonce' = [value |-> reply.nonce] /\ error' = error
    /\ UNCHANGED app_vars
    /\ UNCHANGED <<gas_prices, gas_estimates, balance_wei,
                   caller, args, user_operation, discord_context,
                   signing_request, shared_secrets, request_data, porter_reply,
                   signature_responses, signed_user_operation, estimate_request,
                   relay_request, result>>

\* The call of create_eth_transfer_user_operation.  send_eth passes
\* smart_account, to_address, amount_wei and nonce only: the parameter web3
\* has no default, so the call raises TypeError before the body runs.  A
\* caller that passes web3 (and possibly user_id) runs the body.
CreateUserOperation ==
    /\ pc = "create_op"
    /\ IF caller = "send_eth"
       THEN /\ Raise("TypeError: missing 1 required positional argument: 'web3'")
            /\ UNCHANGED <<user_operation, netlog>>
       ELSE \E reply \in CodeReplies :
            /\ Call("eth_getCode", reply.ok)
            /\ IF ~reply.ok THEN Raise("code read failed") /\ user_operation' = user_operation
               ELSE LET op == create_eth_transfer_user_operation(
                                 smart_account_address, args.recipient, args.amount_wei,
                                 nonce.value, reply.code, args.user_id)
                    IN  IF "raise" \in DOMAIN op
                        THEN Raise(op.raise) /\ user_operation' = user_operation
                        ELSE pc' = "gas_price" /\ user_operation' = op /\ error' = error
    /\ UNCHANGED app_vars
    /\ UNCHANGED <<gas_prices, gas_estimates, balance_wei,
                   caller, args, nonce, discord_context,
                   signing_request, shared_secrets, request_data, porter_reply,
                   signature_responses, signed_user_operation, estimate_request,
                   relay_request, result>>

\* _optimize_gas_settings: get_user_operation_gas_price and its use
GetUserOperationGasPrice ==
    /\ pc = "gas_price"
    /\ \E reply \in BundlerReplies(GasPriceResults) :
        /\ Call("pimlico_getUserOperationGasPrice", ReplyOk(reply))
        /\ gas_prices' = make_bundler_request(reply)
        /\ user_operation' = apply_gas_prices(user_operation, make_bundler_request(reply))
    /\ pc' = "estimate_gas"
    /\ UNCHANGED app_vars
    /\ UNCHANGED <<gas_estimates, balance_wei,
                   caller, args, nonce, discord_context,
                   signing_request, shared_secrets, request_data, porter_reply,
                   signature_responses, signed_user_operation, estimate_request,
                   relay_request, result, error>>

\* _optimize_gas_settings: estimate_user_operation_gas and its use, for a
\* relay whose estimates are drawn from `results`
EstimateUserOperationGasFrom(results) ==
    /\ pc = "estimate_gas"
    /\ estimate_request' = estimate_user_operation_gas_request(user_operation)
    /\ \E reply \in BundlerReplies(results) :
        /\ Call("eth_estimateUserOperationGas", ReplyOk(reply))
        /\ gas_estimates' = make_bundler_request(reply)
        /\ user_operation' = apply_gas_estimates(user_operation, make_bundler_request(reply))
    /\ pc' = "sign"
    /\ UNCHANGED app_vars
    /\ UNCHANGED <<gas_prices, balance_wei,
                   caller, args, nonce, discord_context,
                   signing_request, shared_secrets, request_data, porter_reply,
                   signature_responses, signed_user_operation,
                   relay_request, result, error>>

EstimateUserOperationGas == EstimateUserOperationGasFrom(GasEstimateResults)

\* sign_user_operation up to the POST: context, signing request, session key,
\* cohort read, shared secrets, encrypted requests
SignUserOperation ==
    /\ pc = "sign"
    /\ IF discord_context = None
       THEN /\ Raise("Discord context required for Porter signatures")
            /\ UNCHANGED <<signing_request, shared_secrets, request_data, netlog>>
       ELSE /\ signing_request' =
                 [user_op |-> user_operation, cohort_id |-> cohort_id,
                  chain_id |-> chain_id, aa_version |-> "MDT",
                  context |-> [message |-> discord_context.message_hex,
                               signature |-> discord_context.signature,
                               discordPayload |-> discord_context.body]]
            /\ \E requester_sk \in SessionSecrets, reply \in CohortReplies :
                /\ Call("get_signing_cohort", reply.ok)
                /\ IF ~reply.ok
                   THEN /\ Raise("cohort read failed")
                        /\ UNCHANGED <<shared_secrets, request_data>>
                   ELSE LET secrets == [p \in reply.signers |->
                                          derive_shared_secret(requester_sk, signing_request_key(p))]
                        IN  /\ shared_secrets' = [requester_sk |-> requester_sk, secrets |-> secrets]
                            /\ request_data' =
                                 [encrypted_signing_requests |->
                                      [p \in reply.signers |->
                                          [key |-> secrets[p],
                                           requester_public_key |-> [public_key_of |-> requester_sk]]],
                                  threshold |-> threshold]
                            /\ pc' = "porter"
                            /\ error' = error
    /\ UNCHANGED app_vars
    /\ UNCHANGED <<gas_prices, gas_estimates, balance_wei,
                   caller, args, nonce, user_operation, discord_context, porter_reply,
                   signature_responses, signed_user_operation, estimate_request,
                   relay_request, result>>

\* _request_signatures from the POST on, and _create_signed_user_operation
RequestSignatures ==
    /\ pc = "porter"
    /\ \E reply \in GatewayReplies(shared_secrets.requester_sk) :
        /\ porter_reply' = reply
        /\ Call("porter_sign", reply.kind = "http" /\ reply.status = 200)
        /\ IF reply.kind = "exception" \/ reply.status # 200
           THEN /\ Raise("gateway request failed")
                /\ UNCHANGED <<signature_responses, signed_user_operation>>
           ELSE LET r == process_signing_results(reply.signing_results, shared_secrets.secrets)
                IN  IF "raise" \in DOMAIN r
                    THEN /\ Raise(r.raise)
                         /\ UNCHANGED <<signature_responses, signed_user_operation>>
                    ELSE /\ signature_responses' = r
                         /\ signed_user_operation' =
                                create_signed_user_operation(user_operation, r.list)
                         /\ pc' = "send"
                         /\ error' = error
    /\ UNCHANGED app_vars
    /\ UNCHANGED <<gas_prices, gas_estimates, balance_wei,
                   caller, args, nonce, user_operation, discord_context,
                   signing_request, shared_secrets, request_data, estimate_request,
                   relay_request, result>>

\* send_user_operation and _format_transfer_result
SendUserOperation ==
    /\ pc = "send"
    /\ relay_request' = convert_user_operation_to_pimlico_format(signed_user_operation, None)
    /\ \E reply \in BundlerReplies(SendResults) :
        /\ Call("eth_sendUserOperation", ReplyOk(reply))
        /\ result' = format_transfer_result(
                        send_user_operation_result(make_bundler_request(reply)),
                        args.recipient, args.amount_wei)
    /\ pc' = "done"
    /\ UNCHANGED app_vars
    /\ UNCHANGED <<gas_prices, gas_estimates, balance_wei,
                   caller, args, nonce, user_operation, discord_context,
                   signing_request, shared_secrets, request_data, porter_reply,
                   signature_responses, signed_user_operation, estimate_request, error>>

Next ==
    \/ ValidateBalance
    \/ GetNonce
    \/ CreateUserOperation
    \/ GetUserOperationGasPrice
    \/ EstimateUserOperationGas
    \/ SignUserOperation
    \/ RequestSignatures
    \/ SendUserOperation

Spec == Init /\ [][Next]_vars

(***************************************************************************)
(* The relay-facing functions on their own: _optimize_gas_settings and     *)
(* convert_user_operation_to_pimlico_format applied to any UserOperation   *)
(* a caller of the package may hand them, with estimates of any size.      *)
(***************************************************************************)
\* the small verification-gas estimates run from 0 to this number
MaxSmallEstimate == 7

VerificationEstimates == (0..MaxSmallEstimate) \cup {99999, 100000, 100001}

WideGasEstimateResults ==
    {[k \in S |-> FullEstimate[k]] : S \in (SUBSET {"callGasLimit", "preVerificationGas"}) \ {{}}}
    \cup {[k \in S \cup {"verificationGasLimit"} |->
              IF k = "verificationGasLimit" THEN hex(e) ELSE FullEstimate[k]]
          : S \in {{}, {"callGasLimit"}, {"preVerificationGas"},
                   {"callGasLimit", "preVerificationGas"}},
            e \in VerificationEstimates}

PAYMASTER == [addr |-> "0x00000000000000000000000000000000000000ee"]

\* UserOperation objects: the builder's operation with its optional fields
\* absent, empty or present, and with gas and fee values of either sign
Operations ==
    LET built == create_eth_transfer_user_operation(
                     smart_account_address, "0xaaaaaaaaaaaaaaaaaaaaaaaaaaaaaaaaaaaaaaaa",
                     1, 0, <<96, 128>>, None)
    IN  {[built EXCEPT !.factory = f, !.factory_data = fd,
                       !.paymaster = pm, !.paymaster_data = pd,
                       !.call_gas_limit = g, !.max_fee_per_gas = fee]
         : f \in {None, SMART_ACCOUNT_FACTORY},
           fd \in {<<>>, CREATE_ACCOUNT_SELECTOR},
           pm \in {None, PAYMASTER},
           pd \in {<<>>, <<1>>},
           g \in {DEFAULT_GAS_LIMITS.call, 0 - 1},
           fee \in {DEFAULT_GAS_LIMITS.fee, 0 - 5}}

Init_Bundler ==
    /\ caller = "api"
    /\ args \in [user_id : {None}, recipient : WellFormedAddresses, amount_wei : Amounts]
    /\ pc = "gas_price"
    /\ nonce = [value |-> 0]
    /\ user_operation \in Operations
    /\ discord_context = None
    /\ signing_request = None
    /\ shared_secrets = None
    /\ request_data = None
    /\ porter_reply = None
    /\ signature_responses = None
    /\ signed_user_operation = None
    /\ estimate_request = None
    /\ relay_request = None
    /\ result = None
    /\ error = None
    /\ netlog = <<>>
    /\ balance_wei = None
    /\ gas_prices = None
    /\ gas_estimates = None
    /\ threads = <<>>
    /\ thread_attrs = <<>>
    /\ entropy = 0
    /\ resolutions = <<>>
    /\ chain = chain_at_start

EstimateUserOperationGasWide == EstimateUserOperationGasFrom(WideGasEstimateResults)

Next_Bundler ==
    \/ GetUserOperationGasPrice
    \/ EstimateUserOperationGasWide

Spec_Bundler == Init_Bundler /\ [][Next_Bundler]_vars

(***************************************************************************)
(* app.py: tip requests handled concurrently, one thread per request.      *)
(*                                                                         *)
(* _handle_slash_command starts a thread per interaction; the thread runs  *)
(* _handle_tip: parse_tip_request, _set_discord_context, the transfer and  *)
(* send_discord_response.  A thread whose transfer is send_eth ends at the *)
(* builder as in Spec; a thread with caller "api" has set its context the  *)
(* same way and calls porter_service.sign_user_operation, which reads the  *)
(* context of the current thread and runs one signing round.               *)
(***************************************************************************)
\* tip requests in flight at the same time
MaxThreads == 2

\* changes of the cohort's session keys while the application runs
MaxRotations == 1

Threads == 1..MaxThreads

\* the variables of the single round of Spec
round_vars ==
    <<caller, pc, args, nonce, user_operation, discord_context,
      signing_request, shared_secrets, request_data, porter_reply,
      signature_responses, signed_user_operation, estimate_request,
      relay_request, result, error, netlog, balance_wei, gas_prices,
      gas_estimates>>

\* no round in progress
round_idle ==
    /\ caller = "api"
    /\ args = [user_id |-> None, recipient |-> "0xaaaaaaaaaaaaaaaaaaaaaaaaaaaaaaaaaaaaaaaa",
               amount_wei |-> 1]
    /\ pc = "done"
    /\ nonce = None
    /\ user_operation = None
    /\ discord_context = None
    /\ signing_request = None
    /\ shared_secrets = None
    /\ request_data = None
    /\ porter_reply = None
    /\ signature_responses = None
    /\ signed_user_operation = None
    /\ estimate_request = None
    /\ relay_request = None
    /\ result = None
    /\ error = None
    /\ netlog = <<>>
    /\ balance_wei = None
    /\ gas_prices = None
    /\ gas_estimates = None

\* the floats float() returns: Some(h) for h hundredths, NaN for "nan"; None
\* where float() raises ValueError
NaN == [nan |-> TRUE]

\* the amount option: a decimal text, or text that float() rejects
TipAmounts == {[text |-> "0.01", hundredths |-> Some(1)], [text |-> "abc", hundredths |-> None]}

\* more amount texts: zero, a negative, the limit, above the limit, not a number
AmountTexts ==
    TipAmounts \cup
    {[text |-> "0", hundredths |-> Some(0)], [text |-> "-1", hundredths |-> Some(0 - 100)],
     [text |-> "100", hundredths |-> Some(10000)], [text |-> "100.01", hundredths |-> Some(10001)],
     [text |-> "nan", hundredths |-> NaN]}

\* the recipient option, with the branch of parse_tip_request its text takes
AddressRecipient == [text |-> "0xaaaaaaaaaaaaaaaaaaaaaaaaaaaaaaaaaaaaaaaa", form |-> "address"]
RecipientTexts ==
    {AddressRecipient,
     [text |-> "0xAAAAAAAAAAAAAAAAAAAAAAAAAAAAAAAAAAAAAAAA", form |-> "address"],
     [text |-> "<@7>", form |-> "mention"],
     [text |-> "@bob", form |-> "name"],
     [text |-> "bob", form |-> "other"]}

\* the interaction Discord posts for request t: body, signature and timestamp
\* headers, and the invoking user; two requests differ in all of them.  A
\* valid signature is one over this request.
Interaction(t) ==
    [body |-> [interaction |-> t, type |-> threads[t].type, name |-> threads[t].command],
     signature |-> [ed25519_over |-> IF threads[t].signature_valid THEN t ELSE 0],
     timestamp |-> [sent_at |-> t],
     user_id |-> [id |-> 40 + t],
     recipient |-> threads[t].recipient.text]

\* verify_discord_signature: returns, or abort(401) raises an HTTPException
verify_discord_signature(signature, timestamp, body) ==
    IF signature.ed25519_over = body.interaction THEN None ELSE [abort |-> 401]

\* float comparisons; every comparison with NaN is false
float_le(x, y) == x # NaN /\ x.some <= y
float_gt(x, y) == x # NaN /\ x.some > y

\* parse_tip_request, the amount part: float(amount) raises ValueError, or the
\* value is outside (0, 100]
amount_error(amount) ==
    IF amount.hundredths = None THEN Some("Invalid amount format")
    ELSE IF float_le(amount.hundredths, 0) THEN Some("Amount must be greater than 0")
    ELSE IF float_gt(amount.hundredths, 10000) THEN Some("Safety limit")
    ELSE None

\* str.lower() of an address text
lower(text) ==
    IF text = "0xAAAAAAAAAAAAAAAAAAAAAAAAAAAAAAAAAAAAAAAA"
    THEN "0xaaaaaaaaaaaaaaaaaaaaaaaaaaaaaaaaaaaaaaaa" ELSE text

\* f"0x{hash(name) % (16**40):040x}": forty hex digits that depend on the
\* hash seed of the process
hash_address(name) == CHOOSE a \in WellFormedAddresses : TRUE

\* parse_tip_request
parse_tip_request(amount, recipient) ==
    IF amount_error(amount) # None THEN [error |-> amount_error(amount).some]
    ELSE IF recipient.form \in {"mention", "name"}
         THEN [amount |-> amount.text, recipient_address |-> hash_address(recipient.text),
               recipient_display |-> recipient.text]
    ELSE IF recipient.form = "address"
         THEN [amount |-> amount.text, recipient_address |-> lower(recipient.text),
               recipient_display |-> recipient.text]
    ELSE [error |-> "Invalid recipient"]

\* the dict _set_discord_context builds
discord_context_of(interaction, amount) ==
    [message_hex |-> [hex_of |-> <<interaction.timestamp, interaction.body>>],
     signature |-> interaction.signature,
     timestamp |-> interaction.timestamp,
     command |-> "tip",
     user_id |-> interaction.user_id,
     body |-> interaction.body,
     amount |-> amount.text,
     recipient |-> interaction.recipient]

\* the Context sign_user_operation builds from the context it read
porter_context(discord_context_) ==
    [message |-> discord_context_.message_hex,
     signature |-> discord_context_.signature,
     discordPayload |-> discord_context_.body]

\* the thread that handles every HTTP request
flask_thread(t) == 0

\* threading.current_thread() evaluated in the tip thread t
current_thread(t) == t

\* one secret kept for every round
cached_secret(entropy_) == [sk |-> 0]

\* SessionStaticSecret.random(): a secret drawn from the OS random source; the
\* n-th draw differs from every earlier one
random_secret(entropy_) == [sk |-> entropy_ + 1]

RECURSIVE secrets_tried(_, _)
\* the shared secrets the decrypt loop passes to decrypt(): one per entry of a
\* known provider, up to the first entry that fails
secrets_tried(entries, secrets) ==
    IF entries = <<>> THEN {}
    ELSE LET e == Head(entries)
         IN  IF e.provider \notin DOMAIN secrets
             THEN secrets_tried(Tail(entries), secrets)
             ELSE IF Decryptable(e.data, secrets[e.provider])
                  THEN {secrets[e.provider]} \cup secrets_tried(Tail(entries), secrets)
                  ELSE {secrets[e.provider]}

\* the response map of the whole cohort, in provider order
CohortShape == [i \in 1..Cardinality(CohortProviders) |-> [provider |-> i, valid |-> TRUE]]

\* the cohort of the first read kept for every later round
get_signing_cohort_cached(chain_) == chain_.cohorts[1]

\* signing_coordinator_agent.get_signing_cohort(cohort_id) as _get_signers_info
\* returns it: provider -> session key, read from the chain at the call
get_signing_cohort(chain_) == chain_.cohorts[Len(chain_.cohorts)]

\* a request as it arrives, before handle_interactions
received_request ==
    [pc : {"received"}, http : {None}, started : {FALSE}, send_eth_amount : {None},
     net : {<<>>}, nonce : {None}, signers_info : {None},
     signing_request : {None}, requester_sk : {None}, shared_secrets : {None},
     encrypted_with : {{}}, decrypted_with : {{}},
     signed : {None}, content : {None}, followups : {0}, delivered : {FALSE}]

\* the fields of two records put together
Merge(r, s) ==
    [f \in DOMAIN r \cup DOMAIN s |-> IF f \in DOMAIN r THEN r[f] ELSE s[f]]

\* well-signed tip commands to a wallet address
TipRequests ==
    {Merge(r, s) :
        r \in [caller : {"send_eth", "api"}, signature_valid : {TRUE},
               type : {DISCORD_COMMAND_TYPE}, command : {"tip"},
               amount : TipAmounts, recipient : {AddressRecipient}],
        s \in received_request}

\* every request the endpoint may be sent
AnyRequests ==
    {Merge(r, s) :
        r \in [caller : {"send_eth", "api"}, signature_valid : BOOLEAN,
               type : {DISCORD_PING_TYPE, DISCORD_COMMAND_TYPE, DISCORD_DEFERRED_RESPONSE_TYPE},
               command : {"tip", "address"},
               amount : AmountTexts, recipient : RecipientTexts],
        s \in received_request}

Init_Threads ==
    /\ threads \in [Threads -> TipRequests]
    /\ thread_attrs = [o \in 0..MaxThreads |-> None]
    /\ entropy = 0
    /\ resolutions = <<>>
    /\ chain = chain_at_start
    /\ round_idle

\* handle_interactions with _handle_slash_command: the signature check, then
\* the answer to a PING, to a command other than tip, to a tip (the thread is
\* started) or to anything else.  The HTTPException of abort() is caught by
\* `except Exception`.
HandleInteractions(t) ==
    /\ threads[t].pc = "received"
    /\ LET i == Interaction(t)
           payload == i.body
       IN  IF verify_discord_signature(i.signature, i.timestamp, i.body) # None
           THEN threads' = [threads EXCEPT ![t].pc = "done",
                                           ![t].http = [status |-> 500]]
           ELSE IF payload.type = DISCORD_PING_TYPE
           THEN threads' = [threads EXCEPT ![t].pc = "done",
                                ![t].http = [status |-> 200, type |-> DISCORD_PING_TYPE]]
           ELSE IF payload.type = DISCORD_COMMAND_TYPE /\ payload.name = "tip"
           THEN threads' = [threads EXCEPT ![t].pc = "handle_tip", ![t].started = TRUE,
                                ![t].http = [status |-> 200,
                                             type |-> DISCORD_DEFERRED_RESPONSE_TYPE]]
           ELSE threads' = [threads EXCEPT ![t].pc = "done", ![t].http = [status |-> 204]]
    /\ UNCHANGED <<thread_attrs, entropy, chain>>
    /\ UNCHANGED <<round_vars, resolutions>>

\* the thread ends after a parse error without a follow-up
return_after_parse_error == "done"

\* the pc of a thread after parse_tip_request returned an error: the error
\* is sent as the follow-up
after_parse_error == "respond"

\* _handle_tip up to the transfer: parse_tip_request and _set_discord_context
HandleTip(t) ==
    /\ threads[t].pc = "handle_tip"
    /\ LET tip_data == parse_tip_request(threads[t].amount, threads[t].recipient)
       IN  IF "error" \in DOMAIN tip_data
           THEN /\ threads' = [threads EXCEPT ![t].pc = after_parse_error,
                                              ![t].content = Some(tip_data.error)]
                /\ UNCHANGED thread_attrs
           ELSE /\ thread_attrs' =
                     [thread_attrs EXCEPT ![current_thread(t)] =
                          discord_context_of(Interaction(t), threads[t].amount)]
                /\ threads' = [threads EXCEPT ![t].pc =
                                  IF threads[t].caller = "send_eth" THEN "send_eth" ELSE "get_nonce"]
    /\ UNCHANGED <<entropy, chain>>
    /\ UNCHANGED <<round_vars, resolutions>>

\* how send_eth ends, with the network calls made before: the round of Spec
\* for caller send_eth, which always leaves send_eth with an exception
SendEthOutcomes ==
    {[error |-> "balance read failed", net |-> <<"eth_getBalance">>],
     [error |-> "Insufficient balance", net |-> <<"eth_getBalance">>],
     [error |-> "nonce read failed", net |-> <<"eth_getBalance", "getNonce">>],
     [error |-> "TypeError: missing 1 required positional argument: 'web3'",
      net |-> <<"eth_getBalance", "getNonce">>]}

\* _execute_eth_transfer with send_eth(amount_eth=float(tip_data['amount'])):
\* int(amount_eth * 10**18) raises for NaN; otherwise the round of Spec for
\* caller send_eth; _handle_tip catches the exception
ExecuteEthTransfer(t) ==
    /\ threads[t].pc = "send_eth"
    /\ LET amount_eth == threads[t].amount.hundredths
       IN  IF amount_eth = NaN
           THEN threads' = [threads EXCEPT
                    ![t].pc = "respond", ![t].send_eth_amount = amount_eth,
                    ![t].content = Some("ValueError: cannot convert float NaN to integer")]
           ELSE \E o \in SendEthOutcomes :
                    threads' = [threads EXCEPT
                        ![t].pc = "respond", ![t].send_eth_amount = amount_eth,
                        ![t].net = o.net, ![t].content = Some(o.error)]
    /\ UNCHANGED <<thread_attrs, entropy, chain>>
    /\ UNCHANGED <<round_vars, resolutions>>

\* _get_nonce in thread t: the account's counter as the EntryPoint holds it at
\* the time of the call
GetNonceInThread(t) ==
    /\ threads[t].pc = "get_nonce"
    /\ \/ threads' = [threads EXCEPT ![t].pc = "respond",
                                     ![t].net = Append(@, "getNonce"),
                                     ![t].content = Some("nonce read failed")]
       \/ threads' = [threads EXCEPT ![t].pc = "sign",
                                     ![t].net = Append(@, "getNonce"),
                                     ![t].nonce = [value |-> chain.nonce]]
    /\ UNCHANGED <<thread_attrs, entropy, chain>>
    /\ UNCHANGED <<round_vars, resolutions>>

\* the operation an "api" thread hands to sign_user_operation
ThreadOperation(t) ==
    create_eth_transfer_user_operation(
        smart_account_address,
        parse_tip_request(threads[t].amount, threads[t].recipient).recipient_address,
        1, threads[t].nonce.value, <<96, 128>>, None)

\* sign_user_operation in thread t up to the POST: the context of the current
\* thread, the session secret, the cohort read, the shared secrets and the
\* encrypted requests
SignUserOperationInThread(t) ==
    /\ threads[t].pc = "sign"
    /\ LET discord_context_ == thread_attrs[current_thread(t)]
       IN  IF discord_context_ = None
           THEN /\ threads' = [threads EXCEPT
                      ![t].pc = "respond",
                      ![t].content = Some("Discord context required for Porter signatures")]
                /\ UNCHANGED entropy
           ELSE /\ entropy' = entropy + 1
                /\ \E reply \in CohortReplies :
                     LET requester_sk == random_secret(entropy)
                         request ==
                             [user_op |-> ThreadOperation(t), cohort_id |-> cohort_id,
                              chain_id |-> chain_id, aa_version |-> "MDT",
                              context |-> porter_context(discord_context_)]
                     IN  IF ~reply.ok
                         THEN threads' = [threads EXCEPT
                                  ![t].pc = "respond",
                                  ![t].net = Append(@, "get_signing_cohort"),
                                  ![t].signing_request = request,
                                  ![t].requester_sk = requester_sk,
                                  ![t].content = Some("cohort read failed")]
                         ELSE LET signers_info == get_signing_cohort(chain)
                                  secrets == [p \in DOMAIN signers_info |->
                                      derive_shared_secret(requester_sk, signers_info[p])]
                              IN  threads' = [threads EXCEPT
                                      ![t].pc = "porter",
                                      ![t].net = Append(@, "get_signing_cohort"),
                                      ![t].signers_info = Some(signers_info),
                                      ![t].signing_request = request,
                                      ![t].requester_sk = requester_sk,
                                      ![t].shared_secrets = secrets,
                                      ![t].encrypted_with =
                                          {secrets[p] : p \in DOMAIN signers_info}]
    /\ UNCHANGED <<thread_attrs, chain>>
    /\ UNCHANGED <<round_vars, resolutions>>

\* the responses of the signers to the round of thread u: each under the
\* shared secret of the round's session key and the key the request to that
\* signer was encrypted to
ResponsesTo(u) ==
    [i \in 1..Len(CohortShape) |->
        [provider |-> CohortShape[i].provider,
         data |-> EncryptedResponse(CohortShape[i].provider,
                      derive_shared_secret(threads[u].requester_sk,
                                           threads[u].signers_info.some[CohortShape[i].provider]))]]

\* _request_signatures in thread t from the POST on.  The gateway fails, or
\* delivers the responses of the cohort to the round of some thread u: those
\* of this round, or those of another round in flight
RequestSignaturesInThread(t) ==
    /\ threads[t].pc = "porter"
    /\ \/ threads' = [threads EXCEPT ![t].pc = "respond",
                                     ![t].net = Append(@, "porter"),
                                     ![t].content = Some("gateway request failed")]
       \/ \E u \in DOMAIN threads :
            /\ threads[u].signers_info # None
            /\ LET entries == ResponsesTo(u)
                   r == process_signing_results(
                            [errors |-> <<>>, encrypted_signature_responses |-> entries],
                            threads[t].shared_secrets)
               IN  IF "raise" \in DOMAIN r
                   THEN threads' = [threads EXCEPT
                            ![t].pc = "respond",
                            ![t].net = Append(@, "porter"),
                            ![t].decrypted_with = secrets_tried(entries, threads[t].shared_secrets),
                            ![t].content = Some(r.raise)]
                   ELSE threads' = [threads EXCEPT
                            ![t].pc = "submit",
                            ![t].net = Append(@, "porter"),
                            ![t].decrypted_with = secrets_tried(entries, threads[t].shared_secrets),
                            ![t].signed = create_signed_user_operation(ThreadOperation(t), r.list)]
    /\ UNCHANGED <<thread_attrs, entropy, chain>>
    /\ UNCHANGED <<round_vars, resolutions>>

\* send_user_operation and _format_transfer_result in thread t.  An operation
\* the relay took whose counter is the account's current one is executed, and
\* the EntryPoint moves the counter on.
SendUserOperationInThread(t) ==
    /\ threads[t].pc = "submit"
    /\ \E reply \in BundlerReplies(SendResults) :
          LET bundler_result == send_user_operation_result(make_bundler_request(reply))
          IN  /\ threads' = [threads EXCEPT
                     ![t].pc = "respond",
                     ![t].net = Append(@, "eth_sendUserOperation"),
                     ![t].content =
                         Some(format_transfer_result(
                                  bundler_result,
                                  Interaction(t).recipient, threads[t].amount.text).status)]
              /\ chain' = IF bundler_result.success /\ threads[t].nonce.value = chain.nonce
                          THEN [chain EXCEPT !.nonce = @ + 1]
                          ELSE chain
    /\ UNCHANGED <<thread_attrs, entropy>>
    /\ UNCHANGED <<round_vars, resolutions>>

\* send_discord_response: the follow-up message of the thread, its last step;
\* a failed POST is logged
SendDiscordResponse(t) ==
    /\ threads[t].pc = "respond"
    /\ \E posted \in BOOLEAN :
          threads' = [threads EXCEPT ![t].pc = "done", ![t].followups = @ + 1,
                                     ![t].delivered = posted]
    /\ UNCHANGED <<thread_attrs, entropy, chain>>
    /\ UNCHANGED <<round_vars, resolutions>>

Next_Threads ==
    \E t \in DOMAIN threads :
        \/ HandleInteractions(t)
        \/ HandleTip(t)
        \/ ExecuteEthTransfer(t)
        \/ GetNonceInThread(t)
        \/ SignUserOperationInThread(t)
        \/ RequestSignaturesInThread(t)
        \/ SendUserOperationInThread(t)
        \/ SendDiscordResponse(t)

Spec_Threads == Init_Threads /\ [][Next_Threads]_vars

(***************************************************************************)
(* Spec_Rotation: tip threads that sign, while the cohort changes its      *)
(* session keys at the SigningCoordinator.                                 *)
(***************************************************************************)
\* the signers publish new session keys
RotateCohortKeys ==
    /\ Len(chain.cohorts) <= MaxRotations
    /\ chain' = [chain EXCEPT !.cohorts = Append(@, cohort_keys(Len(@)))]
    /\ UNCHANGED <<threads, thread_attrs, entropy>>
    /\ UNCHANGED <<round_vars, resolutions>>

\* tips that reach the signing round
Init_Rotation ==
    /\ threads \in [Threads -> {r \in TipRequests :
                                    r.caller = "api" /\ amount_error(r.amount) = None}]
    /\ thread_attrs = [o \in 0..MaxThreads |-> None]
    /\ entropy = 0
    /\ resolutions = <<>>
    /\ chain = chain_at_start
    /\ round_idle

Next_Rotation ==
    \/ RotateCohortKeys
    \/ \E t \in DOMAIN threads :
          \/ HandleInteractions(t)
          \/ HandleTip(t)
          \/ GetNonceInThread(t)
          \/ SignUserOperationInThread(t)
          \/ RequestSignaturesInThread(t)
          \/ SendUserOperationInThread(t)
          \/ SendDiscordResponse(t)

Spec_Rotation == Init_Rotation /\ [][Next_Rotation]_vars

(***************************************************************************)
(* Spec_Requests: one request of any kind sent to the interactions         *)
(* endpoint; Spec_Requests_Fair: the same with a thread that keeps         *)
(* running and network calls that return.                                  *)
(***************************************************************************)
Init_Requests ==
    /\ threads \in [{1} -> AnyRequests]
    /\ thread_attrs = [o \in 0..MaxThreads |-> None]
    /\ entropy = 0
    /\ resolutions = <<>>
    /\ chain = chain_at_start
    /\ round_idle

Spec_Requests == Init_Requests /\ [][Next_Threads]_vars

Spec_Requests_Fair == Spec_Requests /\ WF_vars(Next_Threads)

(***************************************************************************)
(* What the claims speak about                                             *)
(***************************************************************************)
\* the gateway answered with a body (HTTP 200)
GatewayAnswered == porter_reply # None /\ "signing_results" \in DOMAIN porter_reply
ReplyErrors == porter_reply.signing_results.errors
ReplyEntries == porter_reply.signing_results.encrypted_signature_responses

\* positions of the response map that hold a valid partial signature: sent by
\* a signer of the round and decryptable with that signer's shared secret
ValidPositions ==
    {i \in 1..Len(ReplyEntries) :
        /\ ReplyEntries[i].provider \in DOMAIN shared_secrets.secrets
        /\ Decryptable(ReplyEntries[i].data, shared_secrets.secrets[ReplyEntries[i].provider])}

\* positions that hold an undecodable response of a signer of the round
GarbagePositions ==
    {i \in 1..Len(ReplyEntries) :
        /\ ReplyEntries[i].provider \in DOMAIN shared_secrets.secrets
        /\ ~Decryptable(ReplyEntries[i].data, shared_secrets.secrets[ReplyEntries[i].provider])}

Issued(name) == \E i \in 1..Len(netlog) : netlog[i].call = name
RoundFailed == error # None \/ (result # None /\ ~result.success)
RoundSucceeded == result # None /\ result.success

\* the valid partial signatures of the reply in ascending order of the signer
\* number, smallest first (defined on the set, without the arrival order)
RECURSIVE Ascending(_)
Ascending(S) ==
    IF S = {} THEN <<>>
    ELSE LET m == CHOOSE r \in S : \A q \in S : int16(r.signer) <= int16(q.signer)
         IN  <<m>> \o Ascending(S \ {m})

ValidResponses == {ReplyEntries[i].data.plain : i \in ValidPositions}

\* the orders in which n responses can arrive
Orders(n) == {f \in [1..n -> 1..n] : \A i, j \in 1..n : i # j => f[i] # f[j]}

(***************************************************************************)
(* C1..C10                                                                 *)
(***************************************************************************)

\* C1: in a round where fewer than `threshold` responses decrypt to a partial
\* signature, no SignedOperation is produced and the round fails.
C1_NoSignedOperationBelowThreshold ==
    (GatewayAnswered /\ Cardinality(ValidPositions) < threshold)
        => (signed_user_operation = None /\ error # None)

\* C2: with threshold 2 and exactly one valid response from the gateway, the
\* round fails and eth_sendUserOperation is never sent.
C2_NoSubmissionWithOneResponse ==
    (threshold = 2 /\ GatewayAnswered /\ Cardinality(ValidPositions) = 1)
        => /\ ~Issued("eth_sendUserOperation")
           /\ relay_request = None
           /\ pc = "done" => RoundFailed

\* C3: a SignedOperation built from `threshold` or more valid responses holds
\* exactly the first `threshold` partial signatures in ascending signer order,
\* so its length is threshold times the length of one signature.
C3_CombinedHasThresholdSignatures ==
    (signed_user_operation # None /\ Cardinality(ValidPositions) >= threshold)
        => /\ Len(signed_user_operation.signature) = threshold * SigLen
           /\ signed_user_operation.signature =
                join([i \in 1..threshold |-> Ascending(ValidResponses)[i].signature])

C5_GarbageIsDiscarded ==
    (/\ GatewayAnswered
     /\ pc # "porter"
     /\ ReplyErrors = <<>>
     /\ GarbagePositions # {}
     /\ Cardinality(ValidPositions) >= threshold)
        => (signed_user_operation # None /\ error = None)

\* C6: once a network call of the round has failed, no later network call is
\* issued and the round ends as a failure.
C6_NetworkFailureAborts ==
    \A i \in 1..Len(netlog) :
        ~netlog[i].ok => (i = Len(netlog) /\ pc = "done" /\ RoundFailed)

\* C7: a send_eth round with sufficient balance, a well-formed recipient, an
\* authorization context and no failed network call does not fail before the
\* signing request is sent to the gateway.
C7_SendEthReachesSigning ==
    (/\ caller = "send_eth"
     /\ IsAddress(args.recipient)
     /\ discord_context # None
     /\ \A i \in 1..Len(netlog) : netlog[i].ok
     /\ error # None
     /\ error.exception # "Insufficient balance")
        => Issued("porter_sign")

\* C8: a reply of the gateway with a non-empty errors list fails the round and
\* yields no SignedOperation, whatever its response map holds.
C8_ErrorsAreFatal ==
    (GatewayAnswered /\ ReplyErrors # <<>>)
        => /\ signed_user_operation = None
           /\ signature_responses = None
           /\ pc = "done"
           /\ error # None
           /\ ~Issued("eth_sendUserOperation")

\* C8 witness: the errors list is non-empty although the response map holds
\* at least `threshold` decryptable entries and nothing else.
C8_Witness ==
    /\ GatewayAnswered
    /\ ReplyErrors # <<>>
    /\ GarbagePositions = {}
    /\ Cardinality(ValidPositions) >= threshold
    /\ Cardinality(ValidPositions) = Len(ReplyEntries)

\* C9: the operation submitted to the relay has the sender, counter, calldata,
\* deployment fields and gas fields of the operation in the signing request;
\* once the signing request is built the Operation no longer changes, no gas
\* request follows the cohort read, and the sender is the one it was built with.
C9_SubmittedIsSignedOperation ==
    /\ relay_request # None =>
          LET op == signing_request.user_op
          IN  /\ relay_request.sender = op.sender
              /\ int16(relay_request.nonce) = op.nonce
              /\ HexBytes(relay_request.callData.digits) = op.call_data
              /\ relay_request.factory = op.factory
              /\ IF relay_request.factoryData = None THEN op.factory_data = <<>>
                 ELSE HexBytes(relay_request.factoryData.digits) = op.factory_data
              /\ int16(relay_request.callGasLimit) = op.call_gas_limit
              /\ int16(relay_request.verificationGasLimit) = op.verification_gas_limit
              /\ int16(relay_request.preVerificationGas) = op.pre_verification_gas
              /\ int16(relay_request.maxFeePerGas) = op.max_fee_per_gas
              /\ int16(relay_request.maxPriorityFeePerGas) = op.max_priority_fee_per_gas
    /\ signing_request # None => user_operation = signing_request.user_op
    /\ signed_user_operation # None =>
          signed_user_operation.user_operation = signing_request.user_op
    /\ user_operation # None => user_operation.sender = smart_account_address
    /\ \A i, j \in 1..Len(netlog) :
          (i < j /\ netlog[i].call \in {"get_signing_cohort", "porter_sign"})
              => netlog[j].call \notin {"pimlico_getUserOperationGasPrice",
                                        "eth_estimateUserOperationGas"}

\* C9 witness: a re-priced operation was signed and submitted to the relay.
C9_Witness ==
    /\ relay_request # None
    /\ Issued("porter_sign")
    /\ signing_request.user_op.call_gas_limit # DEFAULT_GAS_LIMITS.call
    /\ signing_request.user_op.max_fee_per_gas # DEFAULT_GAS_LIMITS.fee

\* C10: the signature in the gas-estimate request is all zero and as long as
\* the final combined signature, threshold times the length of one signature.
C10_PlaceholderHasFinalLength ==
    /\ estimate_request # None =>
          /\ \A i \in 1..Len(estimate_request.signature.digits) :
                estimate_request.signature.digits[i] = 0
          /\ Len(HexBytes(estimate_request.signature.digits)) = threshold * SigLen
    /\ (estimate_request # None /\ signed_user_operation # None) =>
          Len(HexBytes(estimate_request.signature.digits))
              = Len(signed_user_operation.signature)

(***************************************************************************)
(* C11..C14: the round's failures and its network calls                    *)
(***************************************************************************)

\* C11: when the balance read is lower than the transfer amount the round
\* ends at the pre-flight check with the insufficient-balance error, and the
\* balance read is the only network call of the round: nothing of the later
\* stages (counter, code, gas, cohort, gateway, relay) has happened.
C11_InsufficientBalanceStopsRound ==
    (balance_wei # None /\ balance_wei.value < args.amount_wei) =>
        /\ pc = "done"
        /\ error = [exception |-> "Insufficient balance"]
        /\ result = None
        /\ netlog = <<[call |-> "eth_getBalance", ok |-> TRUE]>>
        /\ nonce = None
        /\ user_operation = None
        /\ estimate_request = None
        /\ request_data = None
        /\ relay_request = None

\* C11 witness: a round that read a balance below the amount and has ended.
C11_Witness ==
    /\ balance_wei # None
    /\ balance_wei.value < args.amount_wei
    /\ pc = "done"

\* C12: a round that fails with the invalid-address error has made no network
\* call, and the operation builder does not read from the network when it is
\* given a malformed address.
C12_BuilderMakesNoNetworkCall ==
    /\ (error # None /\ error.exception = "ValueError: invalid address")
          => netlog = <<>>
    /\ ~IsAddress(args.recipient) => ~Issued("eth_getCode")

\* C13: a finished submission reports success (status submitted, with the
\* operation hash) only if the relay's reply carried a result, and reports a
\* failure with status failed and no operation hash whenever the reply was an
\* RPC error, a non-200 status or no reply at all.
C13_SuccessOnlyWithRelayResult ==
    /\ result # None =>
          LET sent == netlog[Len(netlog)]
          IN  /\ sent.call = "eth_sendUserOperation"
              /\ result.success =>
                    /\ sent.ok
                    /\ result.status = "submitted"
                    /\ "user_operation_hash" \in DOMAIN result
                    /\ Truthy(result.user_operation_hash)
              /\ ~sent.ok =>
                    /\ ~result.success
                    /\ result.status = "failed"
                    /\ "user_operation_hash" \notin DOMAIN result
    /\ pc = "send" =>
          \A reply \in BundlerReplies(SendResults) :
              (\/ reply.kind = "exception"
               \/ reply.status # 200
               \/ "error" \in DOMAIN reply.body)
                  => LET r == format_transfer_result(
                                  send_user_operation_result(make_bundler_request(reply)),
                                  args.recipient, args.amount_wei)
                     IN  /\ ~r.success
                         /\ r.status = "failed"
                         /\ "user_operation_hash" \notin DOMAIN r

\* C13 witness: the relay did not return a result and the round reported a
\* failure.
C13_Witness ==
    /\ result # None
    /\ ~netlog[Len(netlog)].ok
    /\ ~result.success

\* C14: no network request of a round is issued twice, and a failed exchange
\* with the signing gateway is the last network call of the round.
C14_NoRequestRepeated ==
    /\ \A i, j \in 1..Len(netlog) : i # j => netlog[i].call # netlog[j].call
    /\ (porter_reply # None /\ ~GatewayAnswered) =>
          /\ pc = "done"
          /\ error # None
          /\ netlog[Len(netlog)].call = "porter_sign"

\* C14 witness: the gateway was unreachable or answered non-2xx, after the
\* relay had been asked for fee prices and a gas estimate.
C14_Witness ==
    /\ porter_reply # None
    /\ ~GatewayAnswered
    /\ Issued("pimlico_getUserOperationGasPrice")
    /\ Issued("eth_estimateUserOperationGas")

(***************************************************************************)
(* C15..C18: gas re-pricing and the relay wire format (Spec_Bundler)       *)
(***************************************************************************)
\* the relay's result holds a value under `key`
Carries(reply_result, key) == reply_result # None /\ key \in DOMAIN reply_result

\* the fast tier of a fee-price result, None when the result has none
FastTierOf(prices) == IF Carries(prices, "fast") THEN prices.fast ELSE None

FeeFields == {"max_fee_per_gas", "max_priority_fee_per_gas"}
GasLimitFields == {"call_gas_limit", "verification_gas_limit", "pre_verification_gas"}

\* the fee step: a fee field changes only if the fast tier carries it
PriceStepFrame ==
    LET fast == FastTierOf(gas_prices')
    IN  /\ DOMAIN user_operation' = DOMAIN user_operation
        /\ \A k \in DOMAIN user_operation \ FeeFields : user_operation'[k] = user_operation[k]
        /\ user_operation'.max_fee_per_gas =
              IF Carries(fast, "maxFeePerGas")
              THEN int16(fast.maxFeePerGas) ELSE user_operation.max_fee_per_gas
        /\ user_operation'.max_priority_fee_per_gas =
              IF Carries(fast, "maxPriorityFeePerGas")
              THEN int16(fast.maxPriorityFeePerGas) ELSE user_operation.max_priority_fee_per_gas

\* the estimate step: a gas limit changes only if the estimate carries it
EstimateStepFrame ==
    /\ DOMAIN user_operation' = DOMAIN user_operation
    /\ \A k \in DOMAIN user_operation \ GasLimitFields : user_operation'[k] = user_operation[k]
    /\ ~Carries(gas_estimates', "callGasLimit")
          => user_operation'.call_gas_limit = user_operation.call_gas_limit
    /\ ~Carries(gas_estimates', "verificationGasLimit")
          => user_operation'.verification_gas_limit = user_operation.verification_gas_limit
    /\ ~Carries(gas_estimates', "preVerificationGas")
          => user_operation'.pre_verification_gas = user_operation.pre_verification_gas

\* C15: each re-pricing step changes only the gas fields the relay's result
\* carries a value for; a missing fast tier, fee field or estimate field
\* leaves the field at its prior value, and sender, counter, calldata,
\* deployment and paymaster fields are the same before and after.
C15_RepricingFrame ==
    [][/\ (pc = "gas_price" /\ pc' = "estimate_gas") => PriceStepFrame
       /\ (pc = "estimate_gas" /\ pc' = "sign") => EstimateStepFrame]_vars

\* C15 witness: an operation with deployment and paymaster fields went through
\* re-pricing with no fast tier and with an estimate that lacks the call gas.
C15_Witness ==
    /\ pc = "sign"
    /\ gas_prices # None
    /\ ~Carries(gas_prices, "fast")
    /\ Carries(gas_estimates, "verificationGasLimit")
    /\ ~Carries(gas_estimates, "callGasLimit")
    /\ user_operation.factory # None
    /\ user_operation.paymaster # None

\* C16: after re-pricing, the verification gas limit is the relay's estimate e
\* plus its half rounded down (100000 gives 150000), and the call gas and
\* pre-verification gas are the relay's estimates unchanged.
C16_VerificationGasPlusHalf ==
    (pc = "sign" /\ gas_estimates # None) =>
        /\ Carries(gas_estimates, "verificationGasLimit") =>
              \E e \in VerificationEstimates :
                  /\ gas_estimates.verificationGasLimit = hex(e)
                  /\ 2 * user_operation.verification_gas_limit <= 3 * e
                  /\ 3 * e < 2 * user_operation.verification_gas_limit + 2
                  /\ e = 100000 => user_operation.verification_gas_limit = 150000
        /\ Carries(gas_estimates, "callGasLimit") =>
              hex(user_operation.call_gas_limit) = gas_estimates.callGasLimit
        /\ Carries(gas_estimates, "preVerificationGas") =>
              hex(user_operation.pre_verification_gas) = gas_estimates.preVerificationGas

\* C16 witness: an odd verification-gas estimate, whose half is not whole, was
\* applied together with a call-gas estimate.
C16_Witness ==
    /\ pc = "sign"
    /\ Carries(gas_estimates, "verificationGasLimit")
    /\ Carries(gas_estimates, "callGasLimit")
    /\ int16(gas_estimates.verificationGasLimit) % 2 = 1
    /\ int16(gas_estimates.verificationGasLimit) > 1

WireKeys ==
    {"sender", "nonce", "callData", "callGasLimit", "verificationGasLimit",
     "preVerificationGas", "maxFeePerGas", "maxPriorityFeePerGas", "signature",
     "factory", "factoryData", "paymaster", "paymasterVerificationGasLimit",
     "paymasterPostOpGasLimit", "paymasterData"}
FactoryKeys == {"factory", "factoryData"}
PaymasterKeys ==
    {"paymaster", "paymasterVerificationGasLimit", "paymasterPostOpGasLimit",
     "paymasterData"}

\* C17: the wire dict of an operation always has the same keys; without a
\* factory both factory keys are null, without a paymaster the four
\* paymaster keys are null, and with a factory and a paymaster none of the
\* six keys is null (stated for operations whose gas and fee values are not
\* negative).
C17_WireKeysNullOrHex ==
    (/\ estimate_request # None
     /\ ~estimate_request.callGasLimit.neg
     /\ ~estimate_request.maxFeePerGas.neg) =>
        /\ DOMAIN estimate_request = WireKeys
        /\ user_operation.factory = None =>
              \A k \in FactoryKeys : estimate_request[k] = None
        /\ user_operation.paymaster = None =>
              \A k \in PaymasterKeys : estimate_request[k] = None
        /\ (user_operation.factory # None /\ user_operation.paymaster # None) =>
              \A k \in FactoryKeys \cup PaymasterKeys : estimate_request[k] # None

\* C18: no wire dict is produced from an operation with a negative gas or fee
\* value: the conversion fails instead.
C18_NegativeValueIsNotEncoded ==
    estimate_request # None =>
        \A k \in {"callGasLimit", "verificationGasLimit", "preVerificationGas",
                  "maxFeePerGas", "maxPriorityFeePerGas"} :
            ~estimate_request[k].neg

(***************************************************************************)
(* C19, C20: concurrent tip threads (Spec_Threads)                         *)
(***************************************************************************)
\* the authorization context of the request thread t was started for
ContextOfRequest(t) ==
    [message |-> [hex_of |-> <<Interaction(t).timestamp, Interaction(t).body>>],
     signature |-> Interaction(t).signature,
     discordPayload |-> Interaction(t).body]

\* C19: in every interleaving of the tip threads, the context in a thread's
\* signing request (message, signature, Discord payload) is the context of
\* the request that thread was started for.
C19_ContextOfOwnRequest ==
    \A t \in Threads :
        threads[t].signing_request # None =>
            threads[t].signing_request.context = ContextOfRequest(t)

\* C19 witness: two threads have each built a signing request while the
\* context of the other was set.
C19_Witness ==
    \E t, u \in Threads :
        /\ t # u
        /\ threads[t].signing_request # None
        /\ threads[u].signing_request # None
        /\ ContextOfRequest(t) # ContextOfRequest(u)

\* the shared secrets that belong to the session key of thread t's round
SecretsOfRound(t) ==
    IF threads[t].requester_sk = None THEN {}
    ELSE {derive_shared_secret(threads[t].requester_sk, signing_request_key(p))
          : p \in CohortProviders}

\* the secrets thread t's round encrypted requests or decrypted responses with
SecretsUsed(t) == threads[t].encrypted_with \cup threads[t].decrypted_with

\* C20: the session secrets of two rounds differ, a round encrypts and
\* decrypts only with shared secrets of its own session key, and with none
\* that belongs to the session key of another round, concurrent or not.
C20_SessionKeyPerRound ==
    /\ \A t \in Threads : SecretsUsed(t) \subseteq SecretsOfRound(t)
    /\ \A t, u \in Threads :
          t # u =>
              /\ (threads[t].requester_sk # None /\ threads[u].requester_sk # None)
                    => threads[t].requester_sk # threads[u].requester_sk
              /\ SecretsUsed(t) \cap SecretsOfRound(u) = {}

\* C20 witness: two rounds ran at the same time; one was handed the responses
\* of the other and could not decrypt them, the other signed.
C20_Witness ==
    \E t, u \in Threads :
        /\ t # u
        /\ threads[t].decrypted_with # {}
        /\ threads[t].signed = None
        /\ threads[u].signed # None

(***************************************************************************)
(* C22, C23: unexpected signers and account deployment (Spec)              *)
(***************************************************************************)
\* positions of the response map whose provider has no shared secret in the
\* round
UnknownPositions ==
    {i \in 1..Len(ReplyEntries) : ReplyEntries[i].provider \notin DOMAIN shared_secrets.secrets}

\* the response map without the entries of providers unknown to the round
KnownEntries ==
    SelectSeq(ReplyEntries, LAMBDA e : e.provider \in DOMAIN shared_secrets.secrets)

\* C22: a response whose provider has no shared secret in the round is
\* skipped: the round ends as it would have ended on the response map
\* without that response, and when the other responses all decrypt and there
\* is at least one, the SignedOperation holds exactly their signatures.
C22_UnknownSignerSkipped ==
    (GatewayAnswered /\ ReplyErrors = <<>>) =>
        /\ LET without == process_signing_results(
                              [errors |-> <<>>, encrypted_signature_responses |-> KnownEntries],
                              shared_secrets.secrets)
           IN  IF "list" \in DOMAIN without
               THEN /\ signature_responses = without
                    /\ signed_user_operation # None
               ELSE /\ signed_user_operation = None
                    /\ error # None
        /\ (GarbagePositions = {} /\ ValidPositions # {}) =>
              /\ error = None
              /\ signed_user_operation # None
              /\ signed_user_operation.signature =
                    join([i \in 1..Cardinality(ValidPositions) |->
                              Ascending(ValidResponses)[i].signature])

\* C22 witness: the response map began with the response of an unexpected
\* provider and a SignedOperation was built from the responses after it.
C22_Witness ==
    /\ GatewayAnswered
    /\ 1 \in UnknownPositions
    /\ Cardinality(ValidPositions) >= threshold
    /\ signed_user_operation # None

\* C23: the operation the builder returns has the factory address and the
\* createAccount payload with salt = identifier exactly when the code read
\* was empty and a user identifier was passed; otherwise it has no factory
\* and an empty payload.
C23_FactoryWhenUndeployedWithIdentifier ==
    /\ (pc = "create_op" /\ caller = "api") =>
          \A reply \in {r \in CodeReplies : r.ok} :
              LET op == create_eth_transfer_user_operation(
                            smart_account_address, args.recipient, args.amount_wei,
                            nonce.value, reply.code, args.user_id)
              IN  "raise" \notin DOMAIN op =>
                      IF reply.code = <<>> /\ args.user_id # None
                      THEN /\ op.factory = SMART_ACCOUNT_FACTORY
                           /\ op.factory_data =
                                 CREATE_ACCOUNT_SELECTOR \o encode(<<0, args.user_id.id>>)
                      ELSE op.factory = None /\ op.factory_data = <<>>
    /\ user_operation # None =>
          /\ args.user_id = None => user_operation.factory = None
          /\ (user_operation.factory = None) = (user_operation.factory_data = <<>>)

\* C23 witness: an operation with the factory populated for user 42.
C23_Witness ==
    /\ user_operation # None
    /\ user_operation.factory = SMART_ACCOUNT_FACTORY
    /\ args.user_id = [id |-> 42]

(***************************************************************************)
(* The address resolver on its own: Spec_Resolver.  Two calls of           *)
(* compute_smart_account_address with identifiers drawn from the texts of  *)
(* at most MaxIdLen digits.                                                *)
(***************************************************************************)
UserIdTexts == UNION {[1..n -> IdDigits] : n \in 0..MaxIdLen}

Init_Resolver ==
    /\ resolutions \in [{1, 2} -> [user_id : UserIdTexts, returned : {None}]]
    /\ threads = <<>>
    /\ thread_attrs = <<>>
    /\ entropy = 0
    /\ chain = chain_at_start
    /\ round_idle

\* one call of compute_smart_account_address
ComputeSmartAccountAddress ==
    /\ \E i \in DOMAIN resolutions :
          /\ resolutions[i].returned = None
          /\ resolutions' = [resolutions EXCEPT
                 ![i].returned = compute_smart_account_address(resolutions[i].user_id)]
    /\ UNCHANGED <<round_vars, threads, thread_attrs, entropy, chain>>

Next_Resolver == ComputeSmartAccountAddress

Spec_Resolver == Init_Resolver /\ [][Next_Resolver]_vars

\* the calls that have returned an address
Resolved == {i \in DOMAIN resolutions : "checksum_address" \in DOMAIN resolutions[i].returned}

\* C21: what the resolver returns depends on the identifier alone: two calls
\* with the same identifier return the same address, and two calls whose
\* identifiers are different non-negative integers return different
\* addresses (the hash taken as injective).
C21_ResolverPureAndInjective ==
    \A i, j \in Resolved :
        /\ resolutions[i].user_id = resolutions[j].user_id
              => resolutions[i].returned = resolutions[j].returned
        /\ int(resolutions[i].user_id).value # int(resolutions[j].user_id).value
              => resolutions[i].returned # resolutions[j].returned

\* C21 witness: the resolver has returned for the identifiers "2" and "258",
\* whose low bytes agree.
C21_Witness ==
    /\ Resolved = DOMAIN resolutions
    /\ resolutions[1].user_id = <<2>>
    /\ resolutions[2].user_id = <<2, 5, 8>>

(***************************************************************************)
(* C24: the cohort read of each round (Spec_Rotation)                      *)
(***************************************************************************)
\* how often thread t has read the cohort
CohortReads(t) ==
    Cardinality({i \in 1..Len(threads[t].net) : threads[t].net[i] = "get_signing_cohort"})

\* thread t reads the cohort in this step
ReadsCohort(t) == threads[t].pc = "sign" /\ threads'[t].pc = "porter"

\* C24: a round reads the cohort once, at the time it signs; the cohort it
\* reads is the one the SigningCoordinator holds at that time, so after a
\* change of keys only the new keys; and its requests are encrypted under the
\* shared secrets of exactly the keys it read.
C24_CohortReadPerRound ==
    /\ [](\A t \in Threads :
            /\ CohortReads(t) <= 1
            /\ threads[t].signers_info # None =>
                  /\ CohortReads(t) = 1
                  /\ threads[t].encrypted_with =
                        {derive_shared_secret(threads[t].requester_sk, threads[t].signers_info.some[p])
                         : p \in CohortProviders})
    /\ [][\A t \in Threads :
            ReadsCohort(t) =>
                threads'[t].signers_info = Some(chain.cohorts[Len(chain.cohorts)])]_vars

\* C24 witness: one round read the cohort before the change of keys, another
\* after it; the later one holds the new keys and has signed.
C24_Witness ==
    \E t, u \in Threads :
        /\ threads[t].signers_info = Some(cohort_keys(0))
        /\ threads[u].signers_info = Some(cohort_keys(1))
        /\ threads[u].signed # None

(***************************************************************************)
(* C25, C29: one request (Spec_Requests); C26: Spec_Requests_Fair          *)
(***************************************************************************)
\* C25: a request with an invalid signature is answered with HTTP 401, no
\* thread is started for it and no signing round begins.
C25_InvalidSignatureAnswered401 ==
    \A t \in DOMAIN threads :
        (~threads[t].signature_valid /\ threads[t].http # None) =>
            /\ threads[t].http.status = 401
            /\ ~threads[t].started
            /\ threads[t].signing_request = None

\* C26: a request that is not a tip command gets no follow-up; a tip command
\* never gets more than one, and once its thread is started it gets one,
\* whatever the thread runs into.
C26_OneFollowUpPerTip ==
    /\ [](/\ threads[1].followups <= 1
          /\ ~threads[1].started => threads[1].followups = 0
          /\ threads[1].pc = "done" /\ threads[1].started => threads[1].followups = 1)
    /\ (threads[1].started ~> threads[1].followups = 1)

\* C26 witness: a follow-up was sent after a parse error.
C26_Witness ==
    /\ threads[1].followups = 1
    /\ "error" \in DOMAIN parse_tip_request(threads[1].amount, threads[1].recipient)

\* the request's parameters fail validation as C29 lists it
FailsValidation(t) ==
    \/ threads[t].amount.hundredths \in {None, NaN}
    \/ threads[t].amount.hundredths.some <= 0
    \/ threads[t].amount.hundredths.some > 10000
    \/ threads[t].recipient.form \notin {"mention", "name", "address"}

\* C29: a tip whose parameters fail validation sets no context, does not
\* call send_eth and makes no network call; send_eth is only called with an
\* amount in (0, 100].
C29_InvalidTipStartsNoRound ==
    \A t \in DOMAIN threads :
        /\ FailsValidation(t) =>
              /\ thread_attrs[t] = None
              /\ threads[t].send_eth_amount = None
              /\ threads[t].net = <<>>
        /\ threads[t].send_eth_amount # None =>
              /\ threads[t].send_eth_amount # NaN
              /\ threads[t].send_eth_amount.some > 0
              /\ threads[t].send_eth_amount.some <= 10000

(***************************************************************************)
(* C27, C28: rounds of different users at the same time (Spec_Threads)     *)
(***************************************************************************)
\* C27: two rounds started by different users have operations with different
\* senders.
C27_SenderPerUser ==
    \A t, u \in Threads :
        /\ Interaction(t).user_id # Interaction(u).user_id
        /\ threads[t].signing_request # None
        /\ threads[u].signing_request # None
        => threads[t].signing_request.user_op.sender # threads[u].signing_request.user_op.sender

\* thread t has handed its operation to the relay
Submitted(t) ==
    \E i \in 1..Len(threads[t].net) : threads[t].net[i] = "eth_sendUserOperation"

\* C28: no two operations handed to the relay have the same counter.
C28_NoCounterSubmittedTwice ==
    \A t, u \in Threads :
        (t # u /\ Submitted(t) /\ Submitted(u)) =>
            threads[t].signed.user_operation.nonce # threads[u].signed.user_operation.nonce

====
